---------------------------- MODULE Spec2Model ----------------------------
(***************************************************************************)
(* Model of flask_server/models.py: the followers association table, the   *)
(* User methods that read and write it, the Post table, the feed query,    *)
(* the password methods and the login user loader.                         *)
(*                                                                         *)
(* Three specifications share the variables:                               *)
(*   Spec      one request at a time: follow, unfollow and post creation   *)
(*             each run as a whole;                                        *)
(*   SpecConc  several requests in flight: follow and unfollow are split   *)
(*             between the is_following test and the append / remove;      *)
(*   SpecAuth  set_password, check_password and load_user.                 *)
(***************************************************************************)
EXTENDS Integers, Sequences, FiniteSets, Bags, TLC

(* ------------------------------ bounds -------------------------------- *)
NumUsers == 2
MaxPosts == 2
MaxTime == 2
MaxRows == 3
NumThreads == 2
MaxLen == 2

Users == 1..NumUsers
Times == 1..MaxTime
Threads == 1..NumThreads
Pairs == Users \X Users

Passwords == {"p1", "p2"}
Salts == {"s1", "s2"}
Chars == {"0", "1", "2", "a", "-"}
DigitChars == <<"0", "1", "2", "3", "4", "5", "6", "7", "8", "9">>
Digits == {DigitChars[k] : k \in DOMAIN DigitChars}
Strings == UNION {[1..n -> Chars] : n \in 0..MaxLen}

(* A nullable column or an optional result: {} is None, {x} is a value. *)
None == {}
Some(x) == {x}

VARIABLES
    followers,      \* the followers table: <<follower_id, followed_id>> -> number of rows
    posts,          \* the post table: posts[i] is the row with id i
    password_hash,  \* user.password_hash, per user id
    last_password,  \* history: the plaintext of the latest set_password, per user id
    pc,             \* per request thread: where it stands inside follow / unfollow
    ret             \* the outcome of the latest check_password / load_user call

vars == <<followers, posts, password_hash, last_password, pc, ret>>

(* ------------------------- the followers table ------------------------ *)
RECURSIVE SumOver(_, _)
SumOver(f, S) ==
    IF S = {} THEN 0
    ELSE LET x == CHOOSE y \in S : TRUE IN f[x] + SumOver(f, S \ {x})

EmptyTable == [p \in Pairs |-> 0]
TableSize(tbl) == SumOver(tbl, Pairs)

(* self.followed: user rows joined to followers rows on                   *)
(* followers.follower_id = self.id AND user.id = followers.followed_id:   *)
(* per user id, the number of result rows that carry it.                  *)
followed(tbl, self) == [u \in Users |-> tbl[<<self, u>>]]

(* query.filter(followers.c.followed_id == user.id).count() *)
FilterCount(q, user) == q[user]

(* self.followed.filter(followers.c.followed_id == user.id).count() == 1 *)
is_following_exists(tbl, self, user) ==
    FilterCount(followed(tbl, self), user) >= 1

is_following_reversed(tbl, self, user) ==
    FilterCount(followed(tbl, user), self) = 1

is_following(tbl, self, user) ==
    FilterCount(followed(tbl, self), user) = 1

(* self.followed.append(user): INSERT INTO followers (follower_id, followed_id); *)
(* the table has no primary key and no unique constraint.                        *)
followed_append_unique(tbl, self, user) ==
    IF tbl[<<self, user>>] = 0 THEN [tbl EXCEPT ![<<self, user>>] = 1] ELSE tbl

followed_append_swapped(tbl, self, user) ==
    [tbl EXCEPT ![<<user, self>>] = @ + 1]

followed_append(tbl, self, user) ==
    [tbl EXCEPT ![<<self, user>>] = @ + 1]

(* self.followed.remove(user):                                            *)
(* DELETE FROM followers WHERE follower_id = :self AND followed_id = :user *)
followed_remove_all_of_self(tbl, self, user) ==
    [p \in Pairs |-> IF p[1] = self THEN 0 ELSE tbl[p]]

followed_remove(tbl, self, user) ==
    [tbl EXCEPT ![<<self, user>>] = 0]

(* The unit of work expects the DELETE to match exactly one row. *)
RowcountMatches(tbl, self, user) == tbl[<<self, user>>] = 1

follow(tbl, self, user) ==
    IF ~is_following(tbl, self, user)
    THEN followed_append(tbl, self, user)
    ELSE tbl

unfollow(tbl, self, user) ==
    IF is_following(tbl, self, user)
    THEN followed_remove(tbl, self, user)
    ELSE tbl

(* ----------------------------- the posts ------------------------------ *)
PostIds == DOMAIN posts
Post(user_id, timestamp) == [user_id |-> user_id, timestamp |-> timestamp]

(* Post.query.join(followers, followers.c.followed_id == Post.user_id)    *)
(*           .filter(followers.c.follower_id == self.id):                 *)
(* one result row per (post, followers row) pair, as a bag of post ids.   *)
JoinFollowed(tbl, ps, self) ==
    LET hit == {i \in DOMAIN ps : tbl[<<self, ps[i].user_id>>] > 0}
    IN  [i \in hit |-> tbl[<<self, ps[i].user_id>>]]

(* Post.query.join(followers, followers.c.follower_id == Post.user_id)    *)
(*           .filter(followers.c.followed_id == self.id)                  *)
JoinFollowers(tbl, ps, self) ==
    LET hit == {i \in DOMAIN ps : tbl[<<ps[i].user_id, self>>] > 0}
    IN  [i \in hit |-> tbl[<<ps[i].user_id, self>>]]

(* Post.query.filter_by(user_id=self.id) *)
Own(ps, self) == SetToBag({i \in DOMAIN ps : ps[i].user_id = self})

(* Query.union: SQL UNION, which drops duplicate rows. *)
union_all(q1, q2) == q1 (+) q2

union(q1, q2) == SetToBag(BagToSet(q1) \cup BagToSet(q2))

(* .order_by(Post.timestamp.desc()): every listing of the rows with        *)
(* timestamps non-increasing; rows with equal timestamps come in any order. *)
Listings(q) ==
    {s \in [1..BagCardinality(q) -> BagToSet(q)] :
        \A i \in BagToSet(q) : Cardinality({k \in DOMAIN s : s[k] = i}) = CopiesIn(i, q)}

order_by_timestamp_desc(ps, q) ==
    {s \in Listings(q) :
        \A j, k \in DOMAIN s : j < k => ps[s[j]].timestamp >= ps[s[k]].timestamp}

(* User.followed_posts: the set of result lists the query may return. *)
followed_posts(tbl, ps, self) ==
    order_by_timestamp_desc(ps, union(JoinFollowed(tbl, ps, self), Own(ps, self)))

(* User.query.filter_by(id=post.user_id).first() for each post, as a set. *)
followed_users_from_edges(tbl, ps, self) ==
    {u \in Users : tbl[<<self, u>>] > 0}

followed_users(tbl, ps, self) ==
    {u \in Users : \E i \in BagToSet(JoinFollowed(tbl, ps, self)) : ps[i].user_id = u}

User_followers(tbl, ps, self) ==
    {u \in Users : \E i \in BagToSet(JoinFollowers(tbl, ps, self)) : ps[i].user_id = u}

(* ------------------------------ actions ------------------------------- *)
Idle == [op |-> "idle", self |-> 1, user |-> 1]

Init ==
    /\ followers = EmptyTable
    /\ posts = <<>>
    /\ password_hash = [u \in Users |-> None]
    /\ last_password = [u \in Users |-> None]
    /\ pc = [t \in Threads |-> Idle]
    /\ ret = [op |-> "none"]

Follow(self, user) ==
    /\ followers' = follow(followers, self, user)
    /\ UNCHANGED <<posts, password_hash, last_password, pc, ret>>

Unfollow(self, user) ==
    /\ followers' = unfollow(followers, self, user)
    /\ UNCHANGED <<posts, password_hash, last_password, pc, ret>>

CreatePost(user_id, timestamp) ==
    /\ Len(posts) < MaxPosts
    /\ posts' = Append(posts, Post(user_id, timestamp))
    /\ UNCHANGED <<followers, password_hash, last_password, pc, ret>>

Next ==
    \/ \E self, user \in Users : Follow(self, user)
    \/ \E self, user \in Users : Unfollow(self, user)
    \/ \E u \in Users, ts \in Times : CreatePost(u, ts)

Spec == Init /\ [][Next]_vars

(* ------------------- claims checked under Spec ------------------------ *)
Edge(tbl, a, b) == tbl[<<a, b>>] >= 1
HasPost(ps, u) == \E i \in DOMAIN ps : ps[i].user_id = u
Range(s) == {s[k] : k \in DOMAIN s}

(* C1: from every state reached by sequential follow / unfollow calls, for *)
(* all users A and B (A = B included), A.is_following(B) is true right     *)
(* after A.follow(B).                                                      *)
C1_FollowThenIsFollowing ==
    \A a, b \in Users : is_following(follow(followers, a, b), a, b)

C1_Witness ==
    /\ followers[<<1, 1>>] = 1
    /\ followers[<<1, 2>>] = 1
    /\ is_following(followers, 1, 1)
    /\ is_following(followers, 1, 2)

(* C2: follow is idempotent: A.follow(B) twice leaves exactly one (A, B)   *)
(* row, and after any sequence of sequential follow / unfollow calls from  *)
(* the empty table every pair has at most one row.                         *)
C2_FollowIdempotent ==
    /\ \A p \in Pairs : followers[p] <= 1
    /\ \A a, b \in Users :
          LET once == follow(followers, a, b)
              twice == follow(once, a, b)
          IN  twice[<<a, b>>] = 1 /\ twice = once

C2_Witness ==
    /\ followers[<<1, 2>>] = 1
    /\ followers[<<2, 1>>] = 1
    /\ follow(followers, 1, 2) = followers

(* C3: A.unfollow(B) when A does not follow B changes nothing (followers,  *)
(* users, posts); when A follows B with a single row it removes that row   *)
(* and leaves every other row as it was.                                   *)
C3_UnfollowFrame ==
    /\ [](\A a, b \in Users :
            LET after == unfollow(followers, a, b)
            IN  /\ followers[<<a, b>>] = 0 => after = followers
                /\ followers[<<a, b>>] = 1 =>
                      /\ after[<<a, b>>] = 0
                      /\ \A p \in Pairs \ {<<a, b>>} : after[p] = followers[p])
    /\ [][followers' # followers =>
            UNCHANGED <<posts, password_hash, last_password>>]_vars

C3_Witness ==
    /\ followers[<<1, 1>>] = 1
    /\ followers[<<1, 2>>] = 1
    /\ followers[<<2, 1>>] = 0
    /\ Len(posts) > 0
    /\ unfollow(followers, 1, 2) # followers

(* C4: U.followed_posts() lists exactly the posts whose author is U or a   *)
(* user U follows, each once (also when U follows itself), newest first;   *)
(* a user with no follows gets exactly their own posts.                    *)
C4_Feed ==
    \A u \in Users :
        LET want == {i \in PostIds :
                        posts[i].user_id = u \/ Edge(followers, u, posts[i].user_id)}
            results == followed_posts(followers, posts, u)
        IN  /\ results # {}
            /\ \A s \in results :
                  /\ Range(s) = want
                  /\ Len(s) = Cardinality(want)
                  /\ \A j, k \in DOMAIN s :
                        j < k => posts[s[j]].timestamp >= posts[s[k]].timestamp
                  /\ (\A b \in Users : ~Edge(followers, u, b)) =>
                        Range(s) = {i \in PostIds : posts[i].user_id = u}

C4_Witness ==
    /\ followers[<<1, 1>>] = 1
    /\ followers[<<1, 2>>] = 1
    /\ Len(posts) = 2
    /\ posts[1] = Post(1, 1)
    /\ posts[2] = Post(2, 2)
    /\ followed_posts(followers, posts, 1) = {<<2, 1>>}

At(op, self, user) == [op |-> op, self |-> self, user |-> user]
InFlight(op) == Cardinality({t \in Threads : pc[t].op = op})

(* follow, line 72: the is_following test; the append comes as a later step. *)
FollowCheck(t, self, user) ==
    /\ pc[t].op = "idle"
    /\ TableSize(followers) + InFlight("append") < MaxRows
    /\ pc' = IF ~is_following(followers, self, user)
             THEN [pc EXCEPT ![t] = At("append", self, user)]
             ELSE pc
    /\ UNCHANGED <<followers, posts, password_hash, last_password, ret>>

(* follow, line 73 *)
FollowAppend(t) ==
    /\ pc[t].op = "append"
    /\ followers' = followed_append(followers, pc[t].self, pc[t].user)
    /\ pc' = [pc EXCEPT ![t] = Idle]
    /\ UNCHANGED <<posts, password_hash, last_password, ret>>

(* unfollow, line 76 *)
UnfollowCheck(t, self, user) ==
    /\ pc[t].op = "idle"
    /\ pc' = IF is_following(followers, self, user)
             THEN [pc EXCEPT ![t] = At("remove", self, user)]
             ELSE pc
    /\ UNCHANGED <<followers, posts, password_hash, last_password, ret>>

(* unfollow, line 77. When the DELETE does not match exactly one row the   *)
(* flush either raises StaleDataError and the transaction is rolled back,  *)
(* or (a driver that reports no usable rowcount) the DELETE stands.        *)
UnfollowRemove(t) ==
    /\ pc[t].op = "remove"
    /\ \/ followers' = followed_remove(followers, pc[t].self, pc[t].user)
       \/ /\ ~RowcountMatches(followers, pc[t].self, pc[t].user)
          /\ followers' = followers
    /\ pc' = [pc EXCEPT ![t] = Idle]
    /\ UNCHANGED <<posts, password_hash, last_password, ret>>

NextConc ==
    \/ \E t \in Threads, self, user \in Users : FollowCheck(t, self, user)
    \/ \E t \in Threads : FollowAppend(t)
    \/ \E t \in Threads, self, user \in Users : UnfollowCheck(t, self, user)
    \/ \E t \in Threads : UnfollowRemove(t)

SpecConc == Init /\ [][NextConc]_vars

(* C7: two A.follow(B) calls in flight can both pass the test and both     *)
(* insert: a request that passed the test inserts its row whatever the     *)
(* table holds by then, so two (A, B) rows are reachable.                  *)
C7_AppendAfterCheckInserts ==
    [][\A t \in Threads :
          (pc[t].op = "append" /\ pc'[t].op = "idle") =>
              followers'[<<pc[t].self, pc[t].user>>] =
                  followers[<<pc[t].self, pc[t].user>>] + 1]_vars

C7_Witness ==
    /\ followers[<<1, 2>>] = 2
    /\ \A t \in Threads : pc[t].op = "idle"

(* C9: A.is_following(B) is true exactly when the table holds exactly one  *)
(* (A, B) row; with no row or with two or more it is false.                *)
C9_ExactlyOneRow ==
    \A a, b \in Users : is_following(followers, a, b) <=> followers[<<a, b>>] = 1

C9_Witness ==
    /\ followers[<<1, 2>>] = 2
    /\ ~is_following(followers, 1, 2)
    /\ followers[<<2, 1>>] = 1
    /\ is_following(followers, 2, 1)
    /\ ~is_following(followers, 1, 1)

(* C10: once the table holds two or more (A, B) rows, the calls made from  *)
(* then on never restore a single row: unfollow removes nothing, follow    *)
(* inserts one more row, the row count never decreases and is_following    *)
(* stays false.                                                            *)
NoRemoveInFlight(a, b) ==
    \A t \in Threads : pc[t] # At("remove", a, b)

Duplicated(a, b) == followers[<<a, b>>] >= 2 /\ NoRemoveInFlight(a, b)

HashInternal(salt, password) == <<salt, password>>

generate_password_hash(password, salt) ==
    [method |-> "pbkdf2:sha256", salt |-> salt, hashval |-> HashInternal(salt, password)]

(* check_password_hash(pwhash, password) starts by calling a str method on *)
(* pwhash, which raises AttributeError when pwhash is None.                *)
check_password_hash(pwhash, password) ==
    IF pwhash = None
    THEN [exc |-> "AttributeError", ok |-> FALSE]
    ELSE LET h == CHOOSE x \in pwhash : TRUE
         IN  [exc |-> "", ok |-> HashInternal(h.salt, password) = h.hashval]

(* User.set_password *)
set_password(hashes, self, password, salt) ==
    [hashes EXCEPT ![self] = Some(generate_password_hash(password, salt))]

(* User.check_password *)
check_password(hashes, self, password) ==
    check_password_hash(hashes[self], password)

(* int(id) on a str: an optional sign and one or more decimal digits,      *)
(* else ValueError.                                                        *)
AllDigits(s) == \A k \in DOMAIN s : s[k] \in Digits
DigitValue(c) == (CHOOSE k \in DOMAIN DigitChars : DigitChars[k] = c) - 1

RECURSIVE DecimalValue(_)
DecimalValue(s) ==
    IF s = <<>> THEN 0
    ELSE 10 * DecimalValue(SubSeq(s, 1, Len(s) - 1)) + DigitValue(s[Len(s)])

int(s) ==
    IF s # <<>> /\ AllDigits(s)
    THEN [exc |-> "", val |-> DecimalValue(s)]
    ELSE IF Len(s) > 1 /\ s[1] = "-" /\ AllDigits(Tail(s))
    THEN [exc |-> "", val |-> 0 - DecimalValue(Tail(s))]
    ELSE [exc |-> "ValueError", val |-> 0]

(* User.query.get(ident): the row with that primary key, or None. *)
User_query_get(ident) == IF ident \in Users THEN Some(ident) ELSE None

(* load_user: the exception of int(id) propagates to the caller. *)
load_user(id) ==
    LET n == int(id)
    IN  IF n.exc # ""
        THEN [exc |-> n.exc, user |-> None]
        ELSE [exc |-> "", user |-> User_query_get(n.val)]

(* UserMixin.get_id: str(self.id) *)
RECURSIVE str(_)
str(n) ==
    IF n < 10 THEN <<DigitChars[n + 1]>>
    ELSE Append(str(n \div 10), DigitChars[(n % 10) + 1])

SetPassword(self, password, salt) ==
    /\ password_hash' = set_password(password_hash, self, password, salt)
    /\ last_password' = [last_password EXCEPT ![self] = Some(password)]
    /\ ret' = [op |-> "set_password"]
    /\ UNCHANGED <<followers, posts, pc>>

CheckPassword(self, password) ==
    /\ LET r == check_password(password_hash, self, password)
       IN  ret' = [op |-> "check_password", self |-> self, password |-> password,
                   exc |-> r.exc, ok |-> r.ok]
    /\ UNCHANGED <<followers, posts, password_hash, last_password, pc>>

LoadUser(id) ==
    /\ LET r == load_user(id)
       IN  ret' = [op |-> "load_user", id |-> id, exc |-> r.exc, user |-> r.user]
    /\ UNCHANGED <<followers, posts, password_hash, last_password, pc>>

NextAuth ==
    \/ \E self \in Users, password \in Passwords, salt \in Salts :
          SetPassword(self, password, salt)
    \/ \E self \in Users, password \in Passwords : CheckPassword(self, password)
    \/ \E id \in Strings : LoadUser(id)

SpecAuth == Init /\ [][NextAuth]_vars

(* C5: load_user(id) with a non-numeric identifier or with the identifier  *)
(* of no existing user yields "no user" and does not raise; with the       *)
(* string-encoded id of an existing user it returns that user.             *)
C5_LoadUserNoUser ==
    ret.op = "load_user" =>
        /\ ret.exc = ""
        /\ (\A u \in Users : ret.id # str(u)) /\ ~(\E u \in Users : int(ret.id).val = u)
              => ret.user = None
        /\ \A u \in Users : ret.id = str(u) => ret.user = Some(u)

(* C6: check_password(p) returns true only if the latest set_password on   *)
(* that user was set_password(p); on a user whose password hash was never  *)
(* set it returns false and does not raise.                                *)
C6_CheckPassword ==
    ret.op = "check_password" =>
        /\ ret.ok => last_password[ret.self] = Some(ret.password)
        /\ password_hash[ret.self] = None => (ret.exc = "" /\ ~ret.ok)

=============================================================================
